---- MODULE Spec2Model ----
(***************************************************************************)
(* Model of the dataset adapters GlobBiomass (globbiomass.py) and          *)
(* EnviroAtlas (enviroatlas.py): construction (__init__ and _verify, with  *)
(* the files on disk as state) and sample retrieval (__getitem__).         *)
(***************************************************************************)
EXTENDS Integers, Sequences, FiniteSets, TLC

VARIABLES
    \* ---- the directory given as paths/root of GlobBiomass ----
    gb_tifs,          \* extracted rasters '<tile>_<measurement>.tif' present
    gb_zips,          \* archive '<tile>_<measurement>.zip' -> absent | ok | bad (MD5)
    \* ---- the GlobBiomass object under construction / constructed ----
    gb_pc,            \* position in __init__/_verify
    gb_paths,         \* "str" (one str/PathLike) or "list" (an Iterable of paths)
    gb_measurement,
    gb_checksum,
    gb_transforms,    \* TRUE when transforms is not None
    gb_crs,           \* the crs argument, then the crs of the dataset
    gb_index,         \* file names of the index rows, in index order
    gb_todo,          \* archives glob.iglob has still to yield
    gb_log,           \* calls of check_integrity / extract_archive, in order
    gb_outcome,       \* result of the construction
    gb_attrs,         \* TRUE once __init__ has assigned instance attributes
    \* ---- history of the GlobBiomass scenario ----
    gb_constructs,    \* constructions started so far
    gb_tifs0,         \* gb_tifs when the running construction started
    gb_zips0,         \* gb_zips when the running construction started
    gb_prev,          \* measurement of the dataset constructed just before, or "none"
    \* ---- GlobBiomass.__getitem__ ----
    gb_query,
    gb_sample,
    gb_reads,         \* file paths handed to _merge_files, in order
    gb_ncalls,        \* calls of the transforms callable
    gb_result,        \* "none" | "IndexError" | "returned"
    \* ---- the directory given as root of EnviroAtlas ----
    ea_present,       \* entries of _files that exist under root/enviroatlas_lotp
    ea_archive,       \* root/enviroatlas_lotp.zip: absent | ok | bad (MD5)
    \* ---- the EnviroAtlas object ----
    ea_pc,            \* position in __init__/_verify
    ea_splits,
    ea_layers,
    ea_transforms,    \* TRUE when transforms is not None
    ea_prior_as_input,
    ea_download,
    ea_checksum,
    ea_attrs,         \* TRUE once __init__ has assigned instance attributes
    ea_index,         \* rows of the index, in index order
    ea_log,           \* calls of download_url / extract_archive, in order
    ea_md5,           \* MD5 comparisons made so far
    ea_outcome,       \* result of the construction
    \* ---- history of the EnviroAtlas scenario ----
    ea_constructs,    \* constructions started so far
    ea_present0,      \* ea_present when the running construction started
    ea_archive0,      \* ea_archive when the running construction started
    \* ---- EnviroAtlas.__getitem__ ----
    ea_query,
    ea_image,         \* sample['image'] as the loop over the layers leaves it
    ea_mask,          \* sample['mask'] as the loop over the layers leaves it
    ea_sample,        \* the sample returned
    ea_reads,         \* raster files opened, in order
    ea_ncalls,        \* calls of the transforms callable
    ea_result,        \* "none" | "returned" | the error raised
    \* ---- a pixel of the 'lc' raster in EnviroAtlas.__getitem__ ----
    lc_raw,           \* the raw class value read from the raster
    lc_idx,           \* the label raw_enviroatlas_to_idx_map gives it, or -1
    lc_result         \* "none" | "mapped" | "IndexError"

gbvars == <<gb_tifs, gb_zips, gb_pc, gb_paths, gb_measurement, gb_checksum,
            gb_transforms, gb_crs, gb_index, gb_todo, gb_log, gb_outcome,
            gb_attrs, gb_constructs, gb_tifs0, gb_zips0, gb_prev,
            gb_query, gb_sample, gb_reads, gb_ncalls, gb_result>>

eavars == <<ea_present, ea_archive, ea_pc, ea_splits, ea_layers, ea_transforms,
            ea_prior_as_input, ea_download, ea_checksum, ea_attrs, ea_index,
            ea_log, ea_md5, ea_outcome, ea_constructs, ea_present0, ea_archive0,
            ea_query, ea_image, ea_mask, ea_sample, ea_reads, ea_ncalls,
            ea_result>>

lcvars == <<lc_raw, lc_idx, lc_result>>

vars == <<gbvars, eavars, lcvars>>

----------------------------------------------------------------------------
(* Bounds *)

MaxConstructs == 2
MaxCoord == 1
MaxTime == 2
MaxStep == 2
MaxLayers == 2
MaxRaw == 255

----------------------------------------------------------------------------
(* GlobBiomass: class attributes *)

measurements == {"agb", "gsv"}

\* Tiles of the model in the order sorted() gives their file names.
TileOrder == <<"N00E020", "N40E020", "S80E020">>

\* Tiles that have an entry '<tile>_<m>.zip' in md5s ('S80E020' has none).
md5s == {"N00E020", "N40E020"}

Name(t, m) == [tile |-> t, m |-> m]

\* Rasters an index can hold.
AllTifs == {Name("N00E020", "agb"), Name("N40E020", "agb"),
            Name("S80E020", "agb"), Name("N00E020", "gsv")}

\* File names that can occur in the directory under construction.
Names == {Name("N00E020", "agb"), Name("S80E020", "agb"), Name("N00E020", "gsv")}

ZipStates == {"absent", "ok", "bad"}

\* filename_glob.format(measurement) matched against a name
Matches(n, m) == n.m = m

\* RasterDataset.files: the rasters matching filename_glob under paths
files(tifs, m) == {n \in tifs : Matches(n, m)}

\* glob.glob(os.path.join(paths, '*_<measurement>.zip'))
GlobZips(zips, m) == {n \in Names : zips[n] # "absent" /\ Matches(n, m)}

\* sorted(files) as a sequence of names
RECURSIVE SortedFrom(_, _)
SortedFrom(S, i) ==
    IF i > Len(TileOrder) THEN <<>>
    ELSE LET here == {n \in S : n.tile = TileOrder[i]}
         IN  (IF here = {} THEN <<>> ELSE <<CHOOSE n \in here : TRUE>>)
             \o SortedFrom(S, i + 1)

SortedFiles(S) == SortedFrom(S, 1)

NoSample == [mask |-> <<>>]

----------------------------------------------------------------------------
(* GlobBiomass.__init__ and _verify *)

GBRaise(e) ==
    /\ gb_pc' = "raised"
    /\ gb_outcome' = e

\* __init__ up to the call of _verify: the assertion and the attribute assignments
GBConstruct(p, m, c, tr, crs) ==
    /\ gb_pc \in {"new", "ready", "raised"}
    /\ gb_constructs < MaxConstructs
    /\ gb_constructs' = gb_constructs + 1
    /\ gb_prev' = IF gb_pc = "ready" THEN gb_measurement ELSE "none"
    /\ gb_tifs0' = gb_tifs
    /\ gb_zips0' = gb_zips
    /\ gb_index' = <<>>
    /\ gb_todo' = {}
    /\ gb_log' = <<>>
    /\ gb_query' = <<>>
    /\ gb_sample' = NoSample
    /\ gb_reads' = <<>>
    /\ gb_ncalls' = 0
    /\ gb_result' = "none"
    /\ IF m \in measurements
       THEN /\ gb_paths' = p
            /\ gb_measurement' = m
            /\ gb_checksum' = c
            /\ gb_transforms' = tr
            /\ gb_crs' = crs
            /\ gb_attrs' = TRUE
            /\ gb_pc' = "verify"
            /\ gb_outcome' = "none"
       ELSE /\ gb_paths' = "unset"
            /\ gb_measurement' = "unset"
            /\ gb_checksum' = FALSE
            /\ gb_transforms' = FALSE
            /\ gb_crs' = "None"
            /\ gb_attrs' = FALSE
            /\ GBRaise("AssertionError")
    /\ UNCHANGED <<gb_tifs, gb_zips>>
    /\ UNCHANGED eavars
    /\ UNCHANGED lcvars

\* `if self.files:` of _verify
AlreadyExtractedNever(tifs, m) == FALSE
AlreadyExtracted(tifs, m) == files(tifs, m) # {}

\* _verify up to the loop over the archives
GBVerify ==
    /\ gb_pc = "verify"
    /\ IF AlreadyExtracted(gb_tifs, gb_measurement)
       THEN /\ gb_pc' = "super"
            /\ UNCHANGED <<gb_outcome, gb_todo>>
       ELSE IF gb_paths # "str"
       THEN /\ GBRaise("AssertionError")
            /\ UNCHANGED gb_todo
       ELSE IF GlobZips(gb_zips, gb_measurement) # {}
       THEN /\ gb_pc' = "loop"
            /\ gb_todo' = GlobZips(gb_zips, gb_measurement)
            /\ UNCHANGED gb_outcome
       ELSE /\ GBRaise("DatasetNotFoundError")
            /\ UNCHANGED gb_todo
    /\ UNCHANGED <<gb_tifs, gb_zips, gb_paths, gb_measurement, gb_checksum,
                   gb_transforms, gb_crs, gb_index, gb_log, gb_attrs,
                   gb_constructs, gb_tifs0, gb_zips0, gb_prev,
                   gb_query, gb_sample, gb_reads, gb_ncalls, gb_result>>
    /\ UNCHANGED eavars
    /\ UNCHANGED lcvars

\* the checksum condition of the loop body for archive z
\* ("none": not checked, "KeyError": no md5s entry, else the check's verdict)
Integrity(z) ==
    IF ~gb_checksum THEN "none"
    ELSE IF z.tile \notin md5s THEN "KeyError"
    ELSE IF gb_zips[z] = "ok" THEN "pass" ELSE "fail"

\* one iteration of `for zipfile in glob.iglob(pathname)`; iglob yields the
\* archives in the directory's order, which is any order. extract_archive on
\* an archive whose content is not the published one extracts or raises.
GBVisit(z, extracted) ==
    /\ gb_pc = "loop"
    /\ z \in gb_todo
    /\ (gb_zips[z] = "ok" => extracted)
    /\ LET chk == Integrity(z)
           checked == IF chk \in {"pass", "fail"}
                      THEN <<<<"check_integrity", z>>>> ELSE <<>>
       IN  IF chk = "KeyError"
           THEN /\ GBRaise("KeyError")
                /\ UNCHANGED <<gb_log, gb_tifs, gb_todo>>
           ELSE IF chk = "fail"
           THEN /\ GBRaise("RuntimeError")
                /\ gb_log' = gb_log \o checked
                /\ UNCHANGED <<gb_tifs, gb_todo>>
           ELSE /\ gb_log' = gb_log \o checked \o <<<<"extract_archive", z>>>>
                /\ IF extracted
                   THEN /\ gb_tifs' = gb_tifs \cup {z}
                        /\ gb_todo' = gb_todo \ {z}
                        /\ UNCHANGED <<gb_pc, gb_outcome>>
                   ELSE /\ GBRaise("ExtractError")
                        /\ UNCHANGED <<gb_tifs, gb_todo>>
    /\ UNCHANGED <<gb_zips, gb_paths, gb_measurement, gb_checksum,
                   gb_transforms, gb_crs, gb_index, gb_attrs,
                   gb_constructs, gb_tifs0, gb_zips0, gb_prev,
                   gb_query, gb_sample, gb_reads, gb_ncalls, gb_result>>
    /\ UNCHANGED eavars
    /\ UNCHANGED lcvars

\* the loop is exhausted: _verify returns
GBLoopEnd ==
    /\ gb_pc = "loop"
    /\ gb_todo = {}
    /\ gb_pc' = "super"
    /\ UNCHANGED <<gb_tifs, gb_zips, gb_paths, gb_measurement, gb_checksum,
                   gb_transforms, gb_crs, gb_index, gb_todo, gb_log, gb_outcome,
                   gb_attrs, gb_constructs, gb_tifs0, gb_zips0, gb_prev,
                   gb_query, gb_sample, gb_reads, gb_ncalls, gb_result>>
    /\ UNCHANGED eavars
    /\ UNCHANGED lcvars

\* super().__init__(paths, crs, res, ...): the index over the files found
GBSuperInit ==
    /\ gb_pc = "super"
    /\ IF files(gb_tifs, gb_measurement) = {}
       THEN /\ GBRaise("DatasetNotFoundError")
            /\ UNCHANGED <<gb_index, gb_crs>>
       ELSE /\ gb_pc' = "ready"
            /\ gb_outcome' = "ok"
            /\ gb_index' = SortedFiles(files(gb_tifs, gb_measurement))
            /\ gb_crs' = IF gb_crs = "None" THEN "EPSG:4326" ELSE gb_crs
    /\ UNCHANGED <<gb_tifs, gb_zips, gb_paths, gb_measurement, gb_checksum,
                   gb_transforms, gb_todo, gb_log, gb_attrs,
                   gb_constructs, gb_tifs0, gb_zips0, gb_prev,
                   gb_query, gb_sample, gb_reads, gb_ncalls, gb_result>>
    /\ UNCHANGED eavars
    /\ UNCHANGED lcvars

\* No pixel of an 'lc' raster has been read.
LCIdle ==
    /\ lc_raw = 0
    /\ lc_idx = -1
    /\ lc_result = "none"

\* The EnviroAtlas side before any EnviroAtlas is constructed, on an empty root
EAIdle ==
    /\ ea_present = {}
    /\ ea_archive = "absent"
    /\ ea_pc = "new"
    /\ ea_splits = <<>>
    /\ ea_layers = <<>>
    /\ ea_transforms = FALSE
    /\ ea_prior_as_input = FALSE
    /\ ea_download = FALSE
    /\ ea_checksum = FALSE
    /\ ea_attrs = FALSE
    /\ ea_index = <<>>
    /\ ea_log = <<>>
    /\ ea_md5 = 0
    /\ ea_outcome = "none"
    /\ ea_constructs = 0
    /\ ea_present0 = {}
    /\ ea_archive0 = "absent"
    /\ ea_query = <<>>
    /\ ea_image = <<>>
    /\ ea_mask = <<>>
    /\ ea_sample = NoSample
    /\ ea_reads = <<>>
    /\ ea_ncalls = 0
    /\ ea_result = "none"

GBInit ==
    /\ LCIdle
    /\ EAIdle
    /\ gb_tifs \in SUBSET Names
    /\ gb_zips \in [Names -> ZipStates]
    /\ gb_pc = "new"
    /\ gb_paths = "unset"
    /\ gb_measurement = "unset"
    /\ gb_checksum = FALSE
    /\ gb_transforms = FALSE
    /\ gb_crs = "None"
    /\ gb_index = <<>>
    /\ gb_todo = {}
    /\ gb_log = <<>>
    /\ gb_outcome = "none"
    /\ gb_attrs = FALSE
    /\ gb_constructs = 0
    /\ gb_tifs0 = gb_tifs
    /\ gb_zips0 = gb_zips
    /\ gb_prev = "none"
    /\ gb_query = <<>>
    /\ gb_sample = NoSample
    /\ gb_reads = <<>>
    /\ gb_ncalls = 0
    /\ gb_result = "none"

GBNext ==
    \/ \E p \in {"str", "list"}, m \in measurements \cup {"xyz"},
          c \in BOOLEAN, tr \in BOOLEAN, crs \in {"None", "EPSG:3857"} :
          GBConstruct(p, m, c, tr, crs)
    \/ GBVerify
    \/ \E z \in Names, extracted \in BOOLEAN : GBVisit(z, extracted)
    \/ GBLoopEnd
    \/ GBSuperInit

SpecGB == GBInit /\ [][GBNext]_vars

----------------------------------------------------------------------------
(* GlobBiomass.__getitem__ *)

Coords == 0..MaxCoord
Times == 0..MaxTime

\* A disambiguated query [xmin:xmax, ymin:ymax, tmin:tmax:tstep]
Queries ==
    {[x |-> <<x1, x2>>, y |-> <<y1, y2>>, t |-> <<t1, t2>>, step |-> k] :
        x1 \in Coords, x2 \in Coords, y1 \in Coords, y2 \in Coords,
        t1 \in Times, t2 \in Times, k \in 1..MaxStep}

ValidQueries ==
    {q \in Queries : q.x[1] <= q.x[2] /\ q.y[1] <= q.y[2] /\ q.t[1] <= q.t[2]}

\* mint, maxt = disambiguate_timestamp('2010', '%Y') on the model's time axis
mint == 1
maxt == 2

\* Bounds <<xmin, xmax, ymin, ymax>> of a tile's raster
TileBox(t) ==
    CASE t = "N00E020" -> <<0, 0, 0, 0>>
      [] t = "N40E020" -> <<0, 0, 1, 1>>
      [] t = "S80E020" -> <<1, 1, 0, 0>>

\* IntervalIndex(closed='both').overlaps(pd.Interval(t.start, t.stop)):
\* the row's interval [lo, hi] against the right-closed (start, stop]
Overlaps(lo, hi, t) == lo <= t[2] /\ t[1] < hi

\* index.iloc[::step]
RECURSIVE EveryNth(_, _)
EveryNth(s, k) ==
    IF s = <<>> THEN <<>>
    ELSE <<Head(s)>> \o EveryNth(SubSeq(s, k + 1, Len(s)), k)

\* index.cx[x.start:x.stop, y.start:y.stop]: the rows whose geometry
\* intersects the query box
Intersects(b, x, y) ==
    /\ b[1] <= x[2] /\ x[1] <= b[2]
    /\ b[3] <= y[2] /\ y[1] <= b[4]

\* the rows left by the three filters of __getitem__, in index order
GBSelect(index, q) ==
    LET Timed(n) == Overlaps(mint, maxt, q.t)
        Hit(n) == Intersects(TileBox(n.tile), q.x, q.y)
    IN  SelectSeq(EveryNth(SelectSeq(index, Timed), q.step), Hit)

\* index.filepath of a row
filepath(n) == <<"data/", n.tile, "_", n.m, ".tif">>

\* str.replace(old, new) on a path
Replace(p, old, new) == [i \in DOMAIN p |-> IF p[i] = old THEN new ELSE p[i]]

Paths(rows) == [i \in DOMAIN rows |-> filepath(rows[i])]

\* index.filepath.apply(lambda x: x.replace('.tif', '_err.tif'))
ErrPaths(rows) == [i \in DOMAIN rows |-> Replace(filepath(rows[i]), ".tif", "_err.tif")]

\* RasterDataset._merge_files: one single-channel raster mosaicked from the
\* files, in their order, cropped to the query
MergeFiles(fps, q) == <<[merged |-> fps, bounds |-> q]>>

\* `if index.empty`
IndexEmptyAlways(index) == FALSE
IndexEmpty(index) == index = <<>>

\* torch.cat((mask, std_err_mask), dim=0)
CatMaskErrFirst(mask, std_err_mask) == std_err_mask \o mask
CatMask(mask, std_err_mask) == mask \o std_err_mask

GBGetItem(q) ==
    /\ gb_pc = "ready"
    /\ gb_result = "none"
    /\ gb_query' = q
    /\ LET index == GBSelect(gb_index, q)
       IN  IF IndexEmpty(index)
           THEN /\ gb_result' = "IndexError"
                /\ gb_sample' = NoSample
                /\ gb_reads' = <<>>
                /\ gb_ncalls' = 0
           ELSE /\ gb_result' = "returned"
                /\ gb_reads' = Paths(index) \o ErrPaths(index)
                /\ gb_sample' =
                      [mask |-> CatMask(MergeFiles(Paths(index), q),
                                        MergeFiles(ErrPaths(index), q)),
                       crs |-> gb_crs,
                       bounds |-> q]
                /\ gb_ncalls' = IF gb_transforms THEN 1 ELSE 0
    /\ UNCHANGED <<gb_tifs, gb_zips, gb_pc, gb_paths, gb_measurement,
                   gb_checksum, gb_transforms, gb_crs, gb_index, gb_todo,
                   gb_log, gb_outcome, gb_attrs, gb_constructs, gb_tifs0,
                   gb_zips0, gb_prev>>
    /\ UNCHANGED eavars
    /\ UNCHANGED lcvars

\* A dataset as construction leaves it: some rasters of the measurement are
\* on disk and indexed.
GBItemInit ==
    /\ LCIdle
    /\ EAIdle
    /\ gb_tifs \in SUBSET AllTifs
    /\ gb_zips = [n \in Names |-> "absent"]
    /\ gb_pc = "ready"
    /\ gb_paths \in {"str", "list"}
    /\ gb_measurement \in measurements
    /\ files(gb_tifs, gb_measurement) # {}
    /\ gb_checksum = FALSE
    /\ gb_transforms \in BOOLEAN
    /\ gb_crs \in {"EPSG:4326", "EPSG:3857"}
    /\ gb_index = SortedFiles(files(gb_tifs, gb_measurement))
    /\ gb_todo = {}
    /\ gb_log = <<>>
    /\ gb_outcome = "ok"
    /\ gb_attrs = TRUE
    /\ gb_constructs = 1
    /\ gb_tifs0 = gb_tifs
    /\ gb_zips0 = gb_zips
    /\ gb_prev = "none"
    /\ gb_query = <<>>
    /\ gb_sample = NoSample
    /\ gb_reads = <<>>
    /\ gb_ncalls = 0
    /\ gb_result = "none"

\* one call of __getitem__ on the dataset
GBItemNext == gb_result = "none" /\ \E q \in ValidQueries : GBGetItem(q)

SpecGBItem == GBItemInit /\ [][GBItemNext]_vars

----------------------------------------------------------------------------
(* EnviroAtlas: class attributes *)

valid_prior_layers == <<"prior", "prior_no_osm_no_buildings">>

valid_layers ==
    <<"naip", "nlcd", "roads", "water", "waterways", "waterbodies",
      "buildings", "lc">> \o valid_prior_layers

cities == <<"pittsburgh_pa-2010_1m", "durham_nc-2012_1m",
            "austin_tx-2012_1m", "phoenix_az-2010_1m">>

\* the split f'{state}-{part}' as the pair <<state, part>>
splits ==
    {<<cities[i], "train">> : i \in 1..1}
    \cup {<<cities[i], "val">> : i \in 1..1}
    \cup {<<cities[i], "test">> : i \in DOMAIN cities}
    \cup {<<cities[i], "val5">> : i \in DOMAIN cities}

\* the entries of _files the model tells apart: a tile directory, a raster
\* in it and the spatial index
_files == {"pittsburgh_pa-2010_1m-train_tiles-debuffered",
           "austin_tx-2012_1m-test_tiles-debuffered/3009726_sw_a_naip.tif",
           "spatial_index.geojson"}

Range(f) == {f[i] : i \in DOMAIN f}

\* the rows of spatial_index.geojson: tile, split and bounds of the geometry
GeoRows ==
    << [tile |-> "p1", split |-> <<cities[1], "train">>, box |-> <<0, 0, 0, 0>>],
       [tile |-> "d1", split |-> <<cities[2], "test">>, box |-> <<0, 0, 1, 1>>],
       [tile |-> "p2", split |-> <<cities[1], "train">>, box |-> <<1, 1, 0, 0>>] >>

\* splits / layers arguments tried on the constructor
CtorSplits == {<<<<cities[1], "train">>>>,
               <<<<cities[1], "train">>, <<cities[2], "test">>>>,
               <<<<"ny", "train">>>>}
CtorLayers == {<<"naip", "prior">>, <<"lc">>, <<"naip", "ndvi">>}

----------------------------------------------------------------------------
(* EnviroAtlas.__init__ and _verify *)

EARaise(e) ==
    /\ ea_pc' = "raised"
    /\ ea_outcome' = e

\* the two assertions of __init__
ValidArgsAlways(sp, ly) == TRUE
ValidArgs(sp, ly) ==
    /\ \A i \in DOMAIN sp : sp[i] \in splits
    /\ \A i \in DOMAIN ly : ly[i] \in Range(valid_layers)

\* __init__ up to the call of _verify
EAConstruct(sp, ly, tr, prior, dl, ck) ==
    /\ ea_pc \in {"new", "ready", "raised"}
    /\ ea_constructs < MaxConstructs
    /\ ea_constructs' = ea_constructs + 1
    /\ ea_present0' = ea_present
    /\ ea_archive0' = ea_archive
    /\ ea_index' = <<>>
    /\ ea_log' = <<>>
    /\ ea_md5' = 0
    /\ ea_query' = <<>>
    /\ ea_image' = <<>>
    /\ ea_mask' = <<>>
    /\ ea_sample' = NoSample
    /\ ea_reads' = <<>>
    /\ ea_ncalls' = 0
    /\ ea_result' = "none"
    /\ IF ValidArgs(sp, ly)
       THEN /\ ea_splits' = sp
            /\ ea_layers' = ly
            /\ ea_transforms' = tr
            /\ ea_prior_as_input' = prior
            /\ ea_download' = dl
            /\ ea_checksum' = ck
            /\ ea_attrs' = TRUE
            /\ ea_pc' = "verify"
            /\ ea_outcome' = "none"
       ELSE /\ ea_splits' = <<>>
            /\ ea_layers' = <<>>
            /\ ea_transforms' = FALSE
            /\ ea_prior_as_input' = FALSE
            /\ ea_download' = FALSE
            /\ ea_checksum' = FALSE
            /\ ea_attrs' = FALSE
            /\ EARaise("AssertionError")
    /\ UNCHANGED <<ea_present, ea_archive>>
    /\ UNCHANGED gbvars
    /\ UNCHANGED lcvars

\* all(map(exists, self._files))
AnyExists(present) == present # {}
AllExist(present) == _files \subseteq present

\* os.path.exists(os.path.join(self.root, self.filename))
ArchiveExistsNever(archive) == FALSE
ArchiveExists(archive) == archive # "absent"

\* _verify: the three checks that decide what it does
EAVerify ==
    /\ ea_pc = "verify"
    /\ IF AllExist(ea_present)
       THEN ea_pc' = "index" /\ UNCHANGED ea_outcome
       ELSE IF ArchiveExists(ea_archive)
       THEN ea_pc' = "extract" /\ UNCHANGED ea_outcome
       ELSE IF ~ea_download
       THEN EARaise("DatasetNotFoundError")
       ELSE ea_pc' = "download" /\ UNCHANGED ea_outcome
    /\ UNCHANGED <<ea_present, ea_archive, ea_splits, ea_layers, ea_transforms,
                   ea_prior_as_input, ea_download, ea_checksum, ea_attrs,
                   ea_index, ea_log, ea_md5, ea_constructs, ea_present0,
                   ea_archive0, ea_query, ea_image, ea_mask, ea_sample,
                   ea_reads, ea_ncalls, ea_result>>
    /\ UNCHANGED gbvars
    /\ UNCHANGED lcvars

\* _download: download_url(url, root, filename, md5=self.md5) fetches the
\* published archive and compares its MD5 with md5
EADownload ==
    /\ ea_pc = "download"
    /\ ea_log' = Append(ea_log, "download_url")
    /\ ea_md5' = ea_md5 + 1
    /\ ea_archive' = "ok"
    /\ ea_pc' = "extract"
    /\ UNCHANGED <<ea_present, ea_splits, ea_layers, ea_transforms,
                   ea_prior_as_input, ea_download, ea_checksum, ea_attrs,
                   ea_index, ea_outcome, ea_constructs, ea_present0,
                   ea_archive0, ea_query, ea_image, ea_mask, ea_sample,
                   ea_reads, ea_ncalls, ea_result>>
    /\ UNCHANGED gbvars
    /\ UNCHANGED lcvars

\* _extract: extract_archive(root/enviroatlas_lotp.zip); an archive whose
\* content is not the published one extracts or raises
EAExtract(extracted) ==
    /\ ea_pc = "extract"
    /\ (ea_archive = "ok" => extracted)
    /\ ea_log' = Append(ea_log, "extract_archive")
    /\ IF extracted
       THEN /\ ea_present' = _files
            /\ ea_pc' = "index"
            /\ UNCHANGED ea_outcome
       ELSE /\ EARaise("ExtractError")
            /\ UNCHANGED ea_present
    /\ UNCHANGED <<ea_archive, ea_splits, ea_layers, ea_transforms,
                   ea_prior_as_input, ea_download, ea_checksum, ea_attrs,
                   ea_index, ea_md5, ea_constructs, ea_present0,
                   ea_archive0, ea_query, ea_image, ea_mask, ea_sample,
                   ea_reads, ea_ncalls, ea_result>>
    /\ UNCHANGED gbvars
    /\ UNCHANGED lcvars

\* the rows of the geojson whose split is among the splits asked for
RowsOf(sp) == SelectSeq(GeoRows, LAMBDA r : r.split \in Range(sp))

\* __init__ after _verify: the index over the tiles of the splits
EABuildIndex ==
    /\ ea_pc = "index"
    /\ ea_index' = RowsOf(ea_splits)
    /\ ea_pc' = "ready"
    /\ ea_outcome' = "ok"
    /\ UNCHANGED <<ea_present, ea_archive, ea_splits, ea_layers, ea_transforms,
                   ea_prior_as_input, ea_download, ea_checksum, ea_attrs,
                   ea_log, ea_md5, ea_constructs, ea_present0,
                   ea_archive0, ea_query, ea_image, ea_mask, ea_sample,
                   ea_reads, ea_ncalls, ea_result>>
    /\ UNCHANGED gbvars
    /\ UNCHANGED lcvars

\* The GlobBiomass side before any GlobBiomass is constructed, on an empty
\* directory
GBIdle ==
    /\ gb_tifs = {}
    /\ gb_zips = [n \in Names |-> "absent"]
    /\ gb_pc = "new"
    /\ gb_paths = "unset"
    /\ gb_measurement = "unset"
    /\ gb_checksum = FALSE
    /\ gb_transforms = FALSE
    /\ gb_crs = "None"
    /\ gb_index = <<>>
    /\ gb_todo = {}
    /\ gb_log = <<>>
    /\ gb_outcome = "none"
    /\ gb_attrs = FALSE
    /\ gb_constructs = 0
    /\ gb_tifs0 = {}
    /\ gb_zips0 = gb_zips
    /\ gb_prev = "none"
    /\ gb_query = <<>>
    /\ gb_sample = NoSample
    /\ gb_reads = <<>>
    /\ gb_ncalls = 0
    /\ gb_result = "none"

EAInit ==
    /\ LCIdle
    /\ GBIdle
    /\ ea_present \in SUBSET _files
    /\ ea_archive \in ZipStates
    /\ ea_pc = "new"
    /\ ea_splits = <<>>
    /\ ea_layers = <<>>
    /\ ea_transforms = FALSE
    /\ ea_prior_as_input = FALSE
    /\ ea_download = FALSE
    /\ ea_checksum = FALSE
    /\ ea_attrs = FALSE
    /\ ea_index = <<>>
    /\ ea_log = <<>>
    /\ ea_md5 = 0
    /\ ea_outcome = "none"
    /\ ea_constructs = 0
    /\ ea_present0 = ea_present
    /\ ea_archive0 = ea_archive
    /\ ea_query = <<>>
    /\ ea_image = <<>>
    /\ ea_mask = <<>>
    /\ ea_sample = NoSample
    /\ ea_reads = <<>>
    /\ ea_ncalls = 0
    /\ ea_result = "none"

EANext ==
    \/ \E sp \in CtorSplits, ly \in CtorLayers, tr \in BOOLEAN,
          prior \in BOOLEAN, dl \in BOOLEAN, ck \in BOOLEAN :
          EAConstruct(sp, ly, tr, prior, dl, ck)
    \/ EAVerify
    \/ EADownload
    \/ \E extracted \in BOOLEAN : EAExtract(extracted)
    \/ EABuildIndex

SpecEA == EAInit /\ [][EANext]_vars

----------------------------------------------------------------------------
(* EnviroAtlas.__getitem__ *)

\* layers arguments the constructor accepts: every list of at most MaxLayers
\* valid layers, and the list of all of them
LayerSelections ==
    UNION {[1..n -> Range(valid_layers)] : n \in 0..MaxLayers} \cup {valid_layers}

ItemSplits == {sp \in CtorSplits : ValidArgs(sp, <<>>)}

\* the layers arguments of CtorLayers the constructor accepts, and no layer
ItemLayers == {ly \in CtorLayers : ValidArgs(<<>>, ly)} \cup {<<>>}

\* queries that leave the time slice to its default: all of the time axis,
\* every row
DefaultTimeQueries ==
    {q \in ValidQueries : q.t = <<0, MaxTime>> /\ q.step = 1}

\* the rows left by the three filters of __getitem__; every row's interval is
\* [pd.Timestamp.min, pd.Timestamp.max], the whole time axis
EASelect(index, q) ==
    LET Timed(r) == Overlaps(0, MaxTime, q.t)
        Hit(r) == Intersects(r.box, q.x, q.y)
    IN  SelectSeq(EveryNth(SelectSeq(index, Timed), q.step), Hit)

\* `elif len(index) == 1`
SingleTileOrMore(index) == Len(index) >= 1
SingleTile(index) == Len(index) = 1

\* rasterio.mask.mask on the file of a layer of the tile; the 'lc' data is
\* passed through raw_enviroatlas_to_idx_map
LayerData(layer, row, q) ==
    [layer |-> layer, tile |-> row.tile, bounds |-> q, idx_map |-> layer = "lc"]

\* the branch of the loop body that takes the data of a layer
Route(layer, prior_as_input) ==
    IF layer \in {"naip", "buildings", "roads", "waterways", "waterbodies", "water"}
    THEN "image"
    ELSE IF layer \in {"prior", "prior_no_osm_no_buildings"}
    THEN (IF prior_as_input THEN "image" ELSE "mask")
    ELSE IF layer \in {"lc"} THEN "mask"
    ELSE "none"

\* the list sample[key] after `for layer in self.layers`
RECURSIVE Collect(_, _, _, _, _)
Collect(key, layers, row, q, prior_as_input) ==
    IF layers = <<>> THEN <<>>
    ELSE (IF Route(Head(layers), prior_as_input) = key
          THEN <<LayerData(Head(layers), row, q)>> ELSE <<>>)
         \o Collect(key, Tail(layers), row, q, prior_as_input)

EAGetItem(q) ==
    /\ ea_pc = "ready"
    /\ ea_result = "none"
    /\ ea_query' = q
    /\ LET index == EASelect(ea_index, q)
       IN  IF index = <<>>
           THEN /\ ea_result' = "IndexError: not found in index"
                /\ ea_image' = <<>>
                /\ ea_mask' = <<>>
                /\ ea_reads' = <<>>
                /\ ea_sample' = NoSample
                /\ ea_ncalls' = 0
           ELSE IF SingleTile(index)
           THEN LET row == index[1]
                    image == Collect("image", ea_layers, row, q, ea_prior_as_input)
                    mask == Collect("mask", ea_layers, row, q, ea_prior_as_input)
                IN  /\ ea_reads' = [i \in DOMAIN ea_layers |-> <<row.tile, ea_layers[i]>>]
                    /\ ea_image' = image
                    /\ ea_mask' = mask
                    /\ IF image = <<>> \/ mask = <<>>
                       THEN \* np.concatenate of an empty list
                            /\ ea_result' = "ValueError"
                            /\ ea_sample' = NoSample
                            /\ ea_ncalls' = 0
                       ELSE /\ ea_result' = "returned"
                            /\ ea_sample' = [image |-> image, mask |-> mask,
                                             crs |-> "EPSG:3857", bounds |-> q]
                            /\ ea_ncalls' = IF ea_transforms THEN 1 ELSE 0
           ELSE /\ ea_result' = "IndexError: spans multiple tiles"
                /\ ea_image' = <<>>
                /\ ea_mask' = <<>>
                /\ ea_reads' = <<>>
                /\ ea_sample' = NoSample
                /\ ea_ncalls' = 0
    /\ UNCHANGED <<ea_present, ea_archive, ea_pc, ea_splits, ea_layers,
                   ea_transforms, ea_prior_as_input, ea_download, ea_checksum,
                   ea_attrs, ea_index, ea_log, ea_md5, ea_outcome,
                   ea_constructs, ea_present0, ea_archive0>>
    /\ UNCHANGED gbvars
    /\ UNCHANGED lcvars

\* A dataset as construction leaves it: the files are under root and the
\* tiles of the splits are indexed.
EAReady(selections) ==
    /\ LCIdle
    /\ GBIdle
    /\ ea_present = _files
    /\ ea_archive = "absent"
    /\ ea_pc = "ready"
    /\ ea_splits \in ItemSplits
    /\ ea_layers \in selections
    /\ ea_transforms \in BOOLEAN
    /\ ea_prior_as_input \in BOOLEAN
    /\ ea_download = FALSE
    /\ ea_checksum = FALSE
    /\ ea_attrs = TRUE
    /\ ea_index = RowsOf(ea_splits)
    /\ ea_log = <<>>
    /\ ea_md5 = 0
    /\ ea_outcome = "ok"
    /\ ea_constructs = 1
    /\ ea_present0 = ea_present
    /\ ea_archive0 = ea_archive
    /\ ea_query = <<>>
    /\ ea_image = <<>>
    /\ ea_mask = <<>>
    /\ ea_sample = NoSample
    /\ ea_reads = <<>>
    /\ ea_ncalls = 0
    /\ ea_result = "none"

\* one call of __getitem__ on the dataset
EAItemNext == ea_result = "none" /\ \E q \in ValidQueries : EAGetItem(q)

EAItemInit == EAReady(ItemLayers)

\* every query against a few selections of layers
SpecEAItem == EAItemInit /\ [][EAItemNext]_vars

\* one call of __getitem__ with the default time slice
EALayersNext == ea_result = "none" /\ \E q \in DefaultTimeQueries : EAGetItem(q)

EALayersInit == EAReady(LayerSelections)

\* every selection of layers against the queries with the default time slice
SpecEALayers == EALayersInit /\ [][EALayersNext]_vars

----------------------------------------------------------------------------
(* EnviroAtlas.raw_enviroatlas_to_idx_map and its use on the 'lc' layer *)

\* the array of the class attribute; entry i + 1 here is entry i there
raw_enviroatlas_to_idx_map_shifted ==
    << 0, 0, 0, 0, 0, 0, 0, 0, 0, 0,
       1, 0, 0, 0, 0, 0, 0, 0, 0, 0,
       2, 0, 0, 0, 0, 0, 0, 0, 0, 0,
       3, 0, 0, 0, 0, 0, 0, 0, 0, 0,
       4, 0, 0, 0, 0, 0, 0, 0, 0, 0,
       0, 5, 0, 0, 0, 0, 0, 0, 0, 0,
       0, 0, 0, 0, 0, 0, 0, 0, 0, 0,
       6, 0, 0, 0, 0, 0, 0, 0, 0, 0,
       7, 0, 8, 0, 0, 0, 0, 0, 0, 0,
       0, 9, 10 >>
raw_enviroatlas_to_idx_map ==
    << 0, 0, 0, 0, 0, 0, 0, 0, 0, 0,
       1, 0, 0, 0, 0, 0, 0, 0, 0, 0,
       2, 0, 0, 0, 0, 0, 0, 0, 0, 0,
       3, 0, 0, 0, 0, 0, 0, 0, 0, 0,
       4, 0, 0, 0, 0, 0, 0, 0, 0, 0,
       0, 0, 5, 0, 0, 0, 0, 0, 0, 0,
       0, 0, 0, 0, 0, 0, 0, 0, 0, 0,
       6, 0, 0, 0, 0, 0, 0, 0, 0, 0,
       7, 0, 8, 0, 0, 0, 0, 0, 0, 0,
       0, 9, 10 >>

\* the raw class values of the high-resolution labels, as the comment on the
\* array lists them
RawClasses == <<0, 10, 20, 30, 40, 52, 70, 80, 82, 91, 92>>

highres_classes ==
    <<"Unclassified", "Water", "Impervious Surface", "Soil and Barren",
      "Trees and Forest", "Shrubs", "Grass and Herbaceous", "Agriculture",
      "Orchards", "Woody Wetlands", "Emergent Wetlands">>

\* raw values a pixel of the raster can hold
RawValues == 0..MaxRaw

\* `data = self.raw_enviroatlas_to_idx_map[data]` on one pixel: numpy raises
\* IndexError for an index past the end of the array
LCIdxMap ==
    /\ lc_result = "none"
    /\ IF lc_raw + 1 \in DOMAIN raw_enviroatlas_to_idx_map
       THEN /\ lc_idx' = raw_enviroatlas_to_idx_map[lc_raw + 1]
            /\ lc_result' = "mapped"
       ELSE /\ lc_idx' = -1
            /\ lc_result' = "IndexError"
    /\ UNCHANGED lc_raw
    /\ UNCHANGED <<gbvars, eavars>>

\* a pixel of the 'lc' raster of a constructed dataset
LCInit ==
    /\ GBIdle
    /\ EAIdle
    /\ lc_raw \in RawValues
    /\ lc_idx = -1
    /\ lc_result = "none"

LCNext == LCIdxMap

SpecLC == LCInit /\ [][LCNext]_vars

----------------------------------------------------------------------------
(* One program that constructs a GlobBiomass and then an EnviroAtlas *)

\* archives of both measurements are under the GlobBiomass paths and the
\* EnviroAtlas root holds at most the archive
CtorsInit ==
    /\ LCIdle
    /\ gb_tifs = {}
    /\ gb_zips \in {[n \in Names |-> "ok"], [n \in Names |-> "bad"]}
    /\ gb_pc = "new"
    /\ gb_paths = "unset"
    /\ gb_measurement = "unset"
    /\ gb_checksum = FALSE
    /\ gb_transforms = FALSE
    /\ gb_crs = "None"
    /\ gb_index = <<>>
    /\ gb_todo = {}
    /\ gb_log = <<>>
    /\ gb_outcome = "none"
    /\ gb_attrs = FALSE
    /\ gb_constructs = 0
    /\ gb_tifs0 = {}
    /\ gb_zips0 = gb_zips
    /\ gb_prev = "none"
    /\ gb_query = <<>>
    /\ gb_sample = NoSample
    /\ gb_reads = <<>>
    /\ gb_ncalls = 0
    /\ gb_result = "none"
    /\ ea_present = {}
    /\ ea_archive \in ZipStates
    /\ ea_pc = "new"
    /\ ea_splits = <<>>
    /\ ea_layers = <<>>
    /\ ea_transforms = FALSE
    /\ ea_prior_as_input = FALSE
    /\ ea_download = FALSE
    /\ ea_checksum = FALSE
    /\ ea_index = <<>>
    /\ ea_log = <<>>
    /\ ea_md5 = 0
    /\ ea_outcome = "none"
    /\ ea_attrs = FALSE
    /\ ea_constructs = 0
    /\ ea_present0 = {}
    /\ ea_archive0 = ea_archive
    /\ ea_query = <<>>
    /\ ea_image = <<>>
    /\ ea_mask = <<>>
    /\ ea_sample = NoSample
    /\ ea_reads = <<>>
    /\ ea_ncalls = 0
    /\ ea_result = "none"

\* GlobBiomass(...) runs to its end, then EnviroAtlas(...) does
CtorsNext ==
    \/ gb_pc \notin {"ready", "raised"} /\ GBNext
    \/ gb_pc \in {"ready", "raised"} /\ ea_pc \notin {"ready", "raised"} /\ EANext

SpecCtors == CtorsInit /\ [][CtorsNext]_vars

----------------------------------------------------------------------------
(* Claims on GlobBiomass construction, under SpecGB *)

GBCompleted == gb_pc \in {"ready", "raised"} /\ gb_constructs > 0

Extractions == {i \in DOMAIN gb_log : gb_log[i][1] = "extract_archive"}

\* C1: a construction with a valid measurement that finds no raster
\* '*_<measurement>.tif' and no archive '*_<measurement>.zip' under paths
\* raises DatasetNotFoundError, having extracted nothing and computed no
\* checksum, whatever checksum is.
C1_NotFoundRaisesDatasetNotFound ==
    (/\ GBCompleted
     /\ gb_attrs
     /\ files(gb_tifs0, gb_measurement) = {}
     /\ GlobZips(gb_zips0, gb_measurement) = {})
    => (gb_outcome = "DatasetNotFoundError" /\ gb_log = <<>>)

\* C2: with checksum True, no raster of the measurement extracted yet and an
\* archive of the measurement whose MD5 differs from its md5s entry, the
\* construction raises RuntimeError; the failed check of a corrupted archive
\* is the last thing done, no corrupted archive is extracted and the index is
\* not built.
C2_CorruptedRaisesRuntimeError ==
    (/\ GBCompleted
     /\ gb_attrs
     /\ gb_checksum
     /\ files(gb_tifs0, gb_measurement) = {}
     /\ \E z \in GlobZips(gb_zips0, gb_measurement) :
           z.tile \in md5s /\ gb_zips0[z] = "bad")
    => (/\ gb_outcome = "RuntimeError"
        /\ gb_log # <<>>
        /\ gb_log[Len(gb_log)][1] = "check_integrity"
        /\ gb_zips0[gb_log[Len(gb_log)][2]] = "bad"
        /\ \A i \in Extractions : gb_zips0[gb_log[i][2]] # "bad"
        /\ gb_index = <<>>)

\* C3: when a raster of the chosen measurement is already under paths, _verify
\* computes no checksum, extracts nothing and raises nothing, whatever checksum
\* is and whatever archives are present; so a second construction on the paths
\* of a constructed dataset (same measurement) succeeds and leaves the files
\* on disk as they were.
C3_AlreadyExtractedIsNoOp ==
    /\ (gb_attrs /\ gb_constructs > 0 /\ files(gb_tifs0, gb_measurement) # {})
       => (/\ gb_log = <<>>
           /\ gb_pc \in {"verify", "super", "ready"}
           /\ gb_tifs = gb_tifs0
           /\ gb_zips = gb_zips0)
    /\ (gb_attrs /\ gb_prev # "none" /\ gb_prev = gb_measurement)
       => (/\ gb_log = <<>>
           /\ gb_pc \in {"verify", "super", "ready"}
           /\ gb_tifs = gb_tifs0
           /\ gb_zips = gb_zips0)

\* C3 witness: a second dataset of the same measurement constructed with
\* checksum True next to a corrupted archive of that measurement.
C3_Witness ==
    /\ gb_pc = "ready"
    /\ gb_constructs = 2
    /\ gb_prev = gb_measurement
    /\ gb_checksum
    /\ \E z \in GlobZips(gb_zips, gb_measurement) : gb_zips[z] = "bad"

----------------------------------------------------------------------------
(* Claims on GlobBiomass.__getitem__, under SpecGBItem *)

\* C4: when no index row is left by the time-overlap filter, the subsampling
\* and the bounding-box filter, __getitem__ raises IndexError; no raster is
\* read, no sample is built and transforms is not called.
C4_EmptySelectionRaisesIndexError ==
    (gb_result # "none" /\ GBSelect(gb_index, gb_query) = <<>>)
    => (/\ gb_result = "IndexError"
        /\ gb_reads = <<>>
        /\ gb_sample = NoSample
        /\ gb_ncalls = 0)

\* C4 witness: an IndexError for a query box that a tile of the index
\* intersects in 2010, the tile being dropped by the subsampling, with a
\* transforms callable set.
C4_Witness ==
    /\ gb_result = "IndexError"
    /\ gb_transforms
    /\ Overlaps(mint, maxt, gb_query.t)
    /\ \E i \in DOMAIN gb_index :
          Intersects(TileBox(gb_index[i].tile), gb_query.x, gb_query.y)

\* the standard-error file of an index row, spelled out
ErrPathOf(n) == <<"data/", n.tile, "_", n.m, "_err.tif">>

\* C5: for a query that matches some tile the sample has exactly the keys
\* mask, crs and bounds; bounds is the query, crs the dataset's crs, and mask
\* is the merged estimate raster followed by the merged standard-error raster
\* of the same tiles in the same order.
C5_SampleLayout ==
    (gb_result # "none" /\ GBSelect(gb_index, gb_query) # <<>>)
    => LET rows == GBSelect(gb_index, gb_query)
       IN  /\ gb_result = "returned"
           /\ DOMAIN gb_sample = {"mask", "crs", "bounds"}
           /\ gb_sample.bounds = gb_query
           /\ gb_sample.crs = gb_crs
           /\ gb_sample.mask =
                 << [merged |-> [i \in DOMAIN rows |-> filepath(rows[i])],
                     bounds |-> gb_query],
                    [merged |-> [i \in DOMAIN rows |-> ErrPathOf(rows[i])],
                     bounds |-> gb_query] >>
           /\ gb_reads = [i \in DOMAIN rows |-> filepath(rows[i])]
                         \o [i \in DOMAIN rows |-> ErrPathOf(rows[i])]

\* C5 witness: a sample mosaicked from two tiles.
C5_Witness ==
    /\ gb_result = "returned"
    /\ Len(GBSelect(gb_index, gb_query)) >= 2
    /\ Len(gb_sample.mask) = 2

----------------------------------------------------------------------------
(* Claims on EnviroAtlas construction, under SpecEA *)

EACompleted == ea_pc \in {"ready", "raised"} /\ ea_constructs > 0

\* the condition of C6 on the root as the construction found it
EANothingToUse ==
    /\ \E f \in _files : f \notin ea_present0
    /\ ea_archive0 = "absent"
    /\ ~ea_download

\* C6: a construction raises DatasetNotFoundError only when a required file is
\* missing, the archive is absent and download is False, and (its arguments
\* being valid) always then; nothing is then downloaded or extracted and the
\* index is not built.
C6_NotFoundExactlyWhenNothingToUse ==
    /\ (EACompleted /\ ea_outcome = "DatasetNotFoundError")
       => (/\ EANothingToUse
           /\ ea_log = <<>>
           /\ ea_index = <<>>
           /\ ea_present = ea_present0
           /\ ea_archive = ea_archive0)
    /\ (EACompleted /\ ea_attrs /\ EANothingToUse)
       => ea_outcome = "DatasetNotFoundError"

\* C6 witness: DatasetNotFoundError with part of the files present.
C6_Witness ==
    /\ ea_pc = "raised"
    /\ ea_outcome = "DatasetNotFoundError"
    /\ ea_present0 # {}
    /\ ea_checksum

\* what _verify is to call, by the priority of C7
EAPlan ==
    IF \A f \in _files : f \in ea_present0 THEN <<>>
    ELSE IF ea_archive0 # "absent" THEN <<"extract_archive">>
    ELSE IF ea_download THEN <<"download_url", "extract_archive">>
    ELSE <<>>

IsPrefix(a, b) == Len(a) <= Len(b) /\ a = SubSeq(b, 1, Len(a))

\* C7: _verify neither extracts nor downloads when all required files are
\* present; else extracts exactly once without downloading when the archive
\* is present; else, only with download True, downloads exactly once and then
\* extracts exactly once.
C7_VerifyPriority ==
    ea_attrs
    => (/\ IsPrefix(ea_log, EAPlan)
        /\ (ea_pc \in {"index", "ready", "raised"} => ea_log = EAPlan))

\* C7 witness: a dataset constructed by a download followed by an extraction.
C7_Witness ==
    /\ ea_pc = "ready"
    /\ ea_log = <<"download_url", "extract_archive">>

\* C10: with checksum True an archive present with a wrong MD5 is never
\* extracted, and with checksum False no MD5 comparison is made.
C10_ChecksumGuardsExtraction ==
    /\ (ea_attrs /\ ea_checksum /\ ea_archive0 = "bad")
       => "extract_archive" \notin Range(ea_log)
    /\ (ea_attrs /\ ~ea_checksum) => ea_md5 = 0

----------------------------------------------------------------------------
(* Claims on EnviroAtlas.__getitem__, under SpecEAItem *)

\* C8: a query matching no tile raises the 'not found' IndexError, one
\* matching two or more tiles raises the 'spans multiple tiles' IndexError,
\* and raster data is read only for a query matching exactly one tile; in both
\* error cases no raster is opened and transforms is not called.
C8_ClassifiedByTileCount ==
    ea_result # "none"
    => LET n == Len(EASelect(ea_index, ea_query))
       IN  /\ n = 0 => (/\ ea_result = "IndexError: not found in index"
                        /\ ea_reads = <<>>
                        /\ ea_ncalls = 0)
           /\ n >= 2 => (/\ ea_result = "IndexError: spans multiple tiles"
                         /\ ea_reads = <<>>
                         /\ ea_ncalls = 0)
           /\ ea_reads # <<>> => n = 1
           /\ (n = 1 /\ ea_layers # <<>>) => ea_reads # <<>>

\* C8 witness: a query spanning two tiles, with layers and transforms set.
C8_Witness ==
    /\ ea_result = "IndexError: spans multiple tiles"
    /\ Len(EASelect(ea_index, ea_query)) = 2
    /\ ea_layers # <<>>
    /\ ea_transforms

\* C9: for a query matching exactly one tile, the data read for every layer
\* of layers is in the image or the mask of the sample returned.
C9_EveryLayerInSample ==
    ea_result = "returned"
    => \A i \in DOMAIN ea_layers :
          \E d \in Range(ea_sample.image) \cup Range(ea_sample.mask) :
             d.layer = ea_layers[i]

----------------------------------------------------------------------------
(* Claims on raw_enviroatlas_to_idx_map, under SpecLC *)

\* C11: the map sends the i-th raw class of [0, 10, 20, 30, 40, 52, 70, 80,
\* 82, 91, 92] to label i (counting from 0), every other value of 0..92 to 0,
\* so a mapped 'lc' value lies in 0..10 and distinct raw classes get distinct
\* labels; a raw value above 92 has no entry.
C11_RawClassesToSequentialLabels ==
    /\ lc_result # "none"
       => (/\ \A i \in DOMAIN RawClasses :
                lc_raw = RawClasses[i] => (lc_result = "mapped" /\ lc_idx = i - 1)
           /\ (lc_raw <= 92 /\ \A i \in DOMAIN RawClasses : lc_raw # RawClasses[i])
                => (lc_result = "mapped" /\ lc_idx = 0)
           /\ lc_result = "mapped" => lc_idx \in 0..10
           /\ lc_raw > 92 <=> lc_result = "IndexError")
    /\ Len(RawClasses) = Len(highres_classes)

\* C11 witness: the raw class 52 (Shrubs) mapped to label 5.
C11_Witness ==
    /\ lc_result = "mapped"
    /\ lc_raw = 52
    /\ lc_idx = 5

----------------------------------------------------------------------------
(* Claims on both constructors, under SpecCtors *)

\* C12: a GlobBiomass constructed with a measurement other than 'agb' and
\* 'gsv', and an EnviroAtlas constructed with a split outside splits or a
\* layer outside valid_layers, raise AssertionError at once: _verify has not
\* run, so nothing was checked, extracted or downloaded, the files are as they
\* were, and no attribute of the instance is set.
C12_ValidationPrecedesEffects ==
    [][/\ \A p \in {"str", "list"}, m \in measurements \cup {"xyz"},
             c \in BOOLEAN, tr \in BOOLEAN, crs \in {"None", "EPSG:3857"} :
             (GBConstruct(p, m, c, tr, crs) /\ m \notin {"agb", "gsv"})
             => (/\ gb_pc' = "raised"
                 /\ gb_outcome' = "AssertionError"
                 /\ gb_log' = <<>>
                 /\ gb_tifs' = gb_tifs
                 /\ gb_zips' = gb_zips
                 /\ ~gb_attrs'
                 /\ gb_paths' = "unset"
                 /\ gb_measurement' = "unset")
       /\ \A sp \in CtorSplits, ly \in CtorLayers, tr \in BOOLEAN,
             prior \in BOOLEAN, dl \in BOOLEAN, ck \in BOOLEAN :
             (/\ EAConstruct(sp, ly, tr, prior, dl, ck)
              /\ \/ \E i \in DOMAIN sp : sp[i] \notin splits
                 \/ \E i \in DOMAIN ly : ly[i] \notin Range(valid_layers))
             => (/\ ea_pc' = "raised"
                 /\ ea_outcome' = "AssertionError"
                 /\ ea_log' = <<>>
                 /\ ea_md5' = 0
                 /\ ea_present' = ea_present
                 /\ ea_archive' = ea_archive
                 /\ ~ea_attrs'
                 /\ ea_splits' = <<>>
                 /\ ea_layers' = <<>>)]_vars

\* C12 witness: both constructors have refused their arguments while archives
\* they could have extracted lie on disk.
C12_Witness ==
    /\ gb_pc = "raised"
    /\ gb_outcome = "AssertionError"
    /\ ~gb_attrs
    /\ \E n \in Names : gb_zips[n] # "absent"
    /\ ea_pc = "raised"
    /\ ea_outcome = "AssertionError"
    /\ ~ea_attrs
    /\ ea_archive # "absent"

----------------------------------------------------------------------------
(* Claims on the failures of EnviroAtlas.__getitem__, under SpecEALayers *)

\* C13: for every accepted layers selection, a query that matches exactly
\* one tile makes __getitem__ return a sample with both 'image' and 'mask';
\* the only error __getitem__ raises is IndexError.
C13_OnlyIndexErrorFails ==
    ea_result # "none"
    => /\ ea_result \in {"returned", "IndexError: not found in index",
                         "IndexError: spans multiple tiles"}
       /\ Len(EASelect(ea_index, ea_query)) = 1
          => (/\ ea_result = "returned"
              /\ {"image", "mask"} \subseteq DOMAIN ea_sample)

====
